---- MODULE Spec2Model ----
(***************************************************************************)
(* Model of the resumable training pipeline of model-training-service:     *)
(* TrainingOrchestrator.train_all_models (training/orchestrator.py) with   *)
(* its checkpoint file training_state.pkl, the per-track feature cache     *)
(* {track}_processed.pkl, the model directory, and the collaborators it    *)
(* calls (FirebaseDataLoader, the four Trainers).                          *)
(*                                                                         *)
(* Persistent state (survives a kill): training_state, cache, models_dir,  *)
(* storage.  Everything else is the memory of the running process and is   *)
(* lost by Kill.  One action is one stretch of code between two writes to  *)
(* persistent state, so that a kill can fall between any two writes.       *)
(*                                                                         *)
(* Environment: the process may be killed between any two writes; the     *)
(* write of a per-track cache file may fail (both joblib.dump calls are    *)
(* wrapped in try/except by the code); the bucket may be changed between   *)
(* two runs.  The checkpoint file training_state.pkl and the model files   *)
(* are written and read back reliably, and a cache file that exists loads. *)
(* _upload_models_to_firebase only copies the model files to the bucket    *)
(* and swallows its errors; it changes nothing that is modelled here.      *)
(*                                                                         *)
(* Three collaborators are also modelled on their own, each with its own   *)
(* specification: FirebaseDataLoader.load_track_data (LoaderSpec), the     *)
(* telemetry join of FeatureEngineer (JoinSpec) and the stint analysis of  *)
(* TireModelTrainer (TireSpec).  FaultSpec is the pipeline on a bucket     *)
(* whose files may have no rows or may never finish downloading.           *)
(***************************************************************************)
EXTENDS Integers, Sequences, FiniteSets, TLC

\* ---------------------------------------------------------------- bounds
NumTracks == 3
MaxAttempts == 2
MaxChanges == 1
NumLoaderTracks == 2    \* tracks FirebaseDataLoader.load_track_data is called for
MaxRows == 2            \* rows of a pit / telemetry DataFrame, and lap numbers
MaxLaps == 10           \* laps of one car handed to _analyze_car_stints
MaxCarLaps == 3         \* laps of one car in _extract_weather_features
MaxCols == 3            \* columns of the frame handed to _normalize_dataframe
MaxPasses == 2          \* times _normalize_dataframe is applied to a frame
MaxTokenLen == 5        \* characters of a token handed to time_to_seconds

Tracks == 1..NumTracks

\* ------------------------------------------------------- program constants
\* minimum number of valid tracks for the pit-strategy and weather Trainers
\* (orchestrator.py:167, 184) and inside TireModelTrainer.train (tire_trainer.py:32)
MinTracks == 2

\* TireModelTrainer._analyze_car_stints: the largest and the smallest window
\* (tire_trainer.py:219, 223) and the laps a next stint needs (line 229)
MaxWindow == 5
MinWindow == 2
MinNextLaps == 2

\* TireModelTrainer._calculate_degradation_targets, in thousandths of a second
\* per lap: the clamp of a sector target (line 401), of grip_loss_rate (line
\* 413), and the defaults (lines 403-405, 415, 421-422)
MinTarget == 1
MaxSectorTarget == 500
MaxGripTarget == 1000
DefaultSectorTarget == 30
DefaultGripTarget == 50

TrainerNames == {"tire_degradation", "fuel_consumption", "pit_strategy", "weather_impact"}

\* What the storage holds for a track:
\*   "absent"    no csv of the track is listed
\*   "full"      the files download and the pit data has rows
\*   "fetchfail" the download of the files fails (or the files are missing)
\*   "raise"     processing the track raises out of _process_single_track
StorageKinds == {"absent", "full", "fetchfail", "raise"}

\* Two further conditions of a track's files, studied on their own:
\*   "zerorows"  the files download and parse, and the pit/lap file has no row
\*   "hang"      the download of the files never returns
FaultKinds == {"full", "zerorows", "hang"}

\* A per-track feature artifact (the dict of DataFrames):
\*   "full"  pit_data has rows;  "empty" every DataFrame is empty
ArtifactKinds == {"full", "empty"}

VARIABLES
    storage,            \* [Tracks -> StorageKinds]          (remote bucket)
    training_state,     \* the dict in training_state.pkl    (persistent)
    cache,              \* [Tracks -> ArtifactKinds \cup {"none"}]  {track}_processed.pkl
    models_dir,         \* the names that have a {name}_model.pkl in outputs/models
    pc,                 \* position of the process in train_all_models
    state_models,       \* state.get("models", {}) of the state loaded at line 32
    available_tracks,   \* local of train_all_models
    remaining_tracks,   \* local of train_all_models
    idx,                \* index of the loop over remaining_tracks (1-based)
    processed_tracks,   \* local of train_all_models
    all_processed_data, \* local of train_all_models: [Tracks -> ArtifactKinds \cup {"none"}]
    track_data,         \* local of train_all_models: result of _process_single_track
    models,             \* local: the dict built by _train_models_with_processed_data
    result,             \* what train_all_models returned
    \* ---- observation (history) variables of the current run
    attempts,           \* [Tracks -> 0..MaxAttempts] calls of _process_single_track
    outcome,            \* [Tracks -> {"none","ok","raised"}] how the call ended
    startProcessed,     \* persisted processed_tracks when this run started
    trainerCalls,       \* [TrainerNames -> 0..1] Trainer invocations
    handed,             \* the tracks handed to the Trainers
    statuses,           \* [TrainerNames -> status] the 'status' of each Trainer's result
    \* ---- observation variables across runs
    prevFailed,         \* tracks that raised in the previous run while others were marked
    epoch,              \* "first": no run has ended or been killed yet;
                        \* "resumed": runs were killed, none ended, same storage;
                        \* "later": a run has ended or the storage was changed
    changes,            \* number of external changes of the storage
    trainedOn,          \* tracks of the aggregates the Trainers were invoked on, in any run
    \* ---- FirebaseDataLoader (data/firebase_loader.py)
    raw_cache,          \* the files /kaggle/working/{track}_cached.pkl: track -> data
    call,               \* the last call of load_track_data and what it returned
    \* ---- FeatureEngineer telemetry join (data/feature_engineer.py)
    pit_data,           \* the pit/lap rows handed to create_composite_features
    telemetry_data,     \* the telemetry rows handed to it
    pit_df,             \* the pit DataFrame as enhanced so far
    join_step,          \* 0: nothing merged, 1: tire aggregates, 2: fuel aggregates
    \* ---- TireModelTrainer._analyze_car_stints (models/tire_trainer.py)
    car_laps,           \* len(car_laps) of the car under analysis
    window_size,        \* local window_size
    stint_i,            \* the loop variable i
    stint,              \* the (features, targets) pair of the iteration under way,
                        \* or the last one appended
    analysis,           \* "idle", "loop", "features", "targets", "returned"
    \* ---- WeatherModelTrainer._extract_weather_features (models/weather_trainer.py)
    lap_timestamps,     \* lap['timestamp'] of the laps of one car, in minutes
    weather_timestamps, \* weather_data['timestamp'], in minutes
    lap_k,              \* the laps of the car gone through so far
    weather_samples,    \* the laps whose feature vector was appended
    \* ---- DataPreprocessor._normalize_dataframe (data/preprocessor.py)
    df_columns,         \* df.columns, each name a sequence of characters
    df_cell,            \* the cell of the first row in each column
    passes,             \* how many times _normalize_dataframe was applied
    \* ---- DataPreprocessor.time_to_seconds (data/preprocessor.py)
    time_str,           \* the argument, a sequence of characters
    seconds             \* what the call returned

persistent == <<storage, training_state, cache, models_dir>>
locals == <<pc, state_models, available_tracks, remaining_tracks, idx, processed_tracks,
            all_processed_data, track_data, models, result>>
runHistory == <<attempts, outcome, startProcessed, trainerCalls, handed, statuses>>
history == <<runHistory, prevFailed, epoch, changes, trainedOn>>
loaderVars == <<raw_cache, call>>
joinVars == <<pit_data, telemetry_data, pit_df, join_step>>
tireVars == <<car_laps, window_size, stint_i, stint, analysis>>
weatherVars == <<lap_timestamps, weather_timestamps, lap_k, weather_samples>>
normVars == <<df_columns, df_cell, passes>>
codecVars == <<time_str, seconds>>
components == <<loaderVars, joinVars, tireVars, weatherVars, normVars, codecVars>>
vars == <<persistent, locals, history, components>>

\* ------------------------------------------------------------- helpers
Range(s) == {s[i] : i \in 1..Len(s)}

NoDuplicates(s) == \A i, j \in 1..Len(s) : i # j => s[i] # s[j]

Min(S) == CHOOSE x \in S : \A y \in S : x <= y

\* sorted(list(tracks))
RECURSIVE SortedList(_)
SortedList(S) == IF S = {} THEN <<>> ELSE <<Min(S)>> \o SortedList(S \ {Min(S)})

\* dict.get(key, default)
Get(d, k, default) == IF k \in DOMAIN d THEN d[k] ELSE default

\* (mutant) the stored dict is replaced by the updates
DictReplace(d, updates) == updates

\* dict.update(updates)
DictUpdate(d, updates) ==
    [k \in (DOMAIN d) \cup (DOMAIN updates) |->
        IF k \in DOMAIN updates THEN updates[k] ELSE d[k]]

\* the keys of the dict all_processed_data
Keys(apd) == {t \in Tracks : apd[t] # "none"}

NoData == [t \in Tracks |-> "none"]
NoModels == [n \in TrainerNames |-> "none"]
EmptyDict == [kind |-> "dict", names |-> {}]

\* the truth value of a models value (dict or list): non-empty
ModelsTruthy(m) == m.names # {}

\* --------------------------------------------------- storage collaborator
\* FirebaseDataLoader.list_available_tracks: the sorted track names
list_available_tracks == SortedList({t \in Tracks : storage[t] # "absent"})

\* FirebaseDataLoader.load_track_data followed by preprocess_track_data and
\* create_composite_features: every exception of the download is caught and
\* replaced by empty DataFrames, so a failed fetch yields the "empty" artifact.
ProcessedArtifact(kind) == IF kind = "full" THEN "full" ELSE "empty"

\* blob.exists() / blob.download_as_bytes() are called without a timeout and
\* load_track_data is called synchronously: the call returns only if the
\* storage answers
FetchReturns(kind) == kind # "hang"

\* `if track_data:` - a dict with its four (or five) keys is truthy
Truthy(td) == td \in ArtifactKinds

\* ------------------------------------------------------ checkpoint file
\* _load_training_state: the stored dict, or the default when there is no file
DefaultState == [processed_tracks |-> <<>>, models |-> EmptyDict]

_load_training_state == training_state

\* (mutant) the updated dict is never written back
UpdateNotWritten(updates) == _load_training_state

\* _update_training_state: re-read, dict.update, write back
_update_training_state(updates) == DictUpdate(_load_training_state, updates)

\* _load_processed_data_state: the cached artifacts of processed_data_keys
_load_processed_data_state ==
    [t \in Tracks |->
        IF t \in Get(_load_training_state, "processed_data_keys", {}) /\ cache[t] # "none"
        THEN cache[t] ELSE "none"]

\* _load_existing_models: one entry per *_model.pkl file in the model directory
_load_existing_models == [n \in TrainerNames |-> IF n \in models_dir THEN "file" ELSE "none"]

\* (mutant) the completed flag is not looked at
NeverCompleted(state) == FALSE

\* `if state.get("completed", False)` at line 33
AlreadyCompleted(state) == Get(state, "completed", FALSE)

\* (mutant) every available track is processed again
RemainingUnfiltered(avail, processed) == avail

\* remaining_tracks = [t for t in available_tracks if t not in processed_tracks]
Remaining(avail, processed) == SelectSeq(avail, LAMBDA t : t \notin Range(processed))

\* where the loop over remaining_tracks goes after index i
AfterTrack(i, rem) == IF i > Len(rem) THEN "train" ELSE "loop"

\* (mutant) an exception ends the loop (break instead of continue)
BreakOnException(i, rem) == "train"

\* `continue` at line 69: the loop goes on after a track that raised
AfterException(i, rem) == AfterTrack(i, rem)

\* ------------------------------------------------------ FirebaseDataLoader
LoaderTracks == 1..NumLoaderTracks

\* data_types of load_track_data, line 284
DataTypes == {"pit_data", "race_data", "telemetry_data", "weather_data"}

\* the csv file of one (track, data type) in the bucket (the blob exists and
\* downloads; a failing download is the "fetchfail" of the pipeline model):
\*   "ok"       it parses and has the columns of its schema
\*   "lacks"    it parses and a column of its schema is missing, whatever the
\*              separator it is read with
FileKinds == {"ok", "lacks"}

\* schemas[data_type]['required_cols'] is the empty list for pit_data only
HasRequiredCols(data_type) == data_type # "pit_data"

\* _enforce_schema: ValueError for a missing required column; a missing column
\* that is not required is added with its default value
_enforce_schema(data_type, file) ==
    IF file = "lacks" /\ HasRequiredCols(data_type) THEN "ValueError" ELSE "rows"

\* _load_csv_with_schema: the ValueError is caught at line 229, the other
\* separators give one column or raise again (bare except, continue), and the
\* empty DataFrame of line 242 is returned
_load_csv_with_schema(data_type, file) ==
    IF _enforce_schema(data_type, file) = "ValueError" THEN "empty" ELSE "rows"

\* _download_and_load_file: the downloaded bytes go to _load_csv_with_schema
_download_and_load_file(data_type, file) == _load_csv_with_schema(data_type, file)

\* _return_empty_data
_return_empty_data == [d \in DataTypes |-> "empty"]

\* (mutant) the ValueError leaves the loop over the data types and the handler
\* of load_track_data answers with empty data
LoadAbortsOnError(files) ==
    IF \E d \in DataTypes : files[d] = "lacks" /\ HasRequiredCols(d)
    THEN _return_empty_data
    ELSE [d \in DataTypes |-> _download_and_load_file(d, files[d])]

\* the loop of load_track_data, lines 286-290: one DataFrame per data type
LoadFromFiles(files) == [d \in DataTypes |-> _download_and_load_file(d, files[d])]

NoCall == [track |-> 0, source |-> "none"]
NoRawCache == [t \in {} |-> _return_empty_data]

\* _cache_track_data: joblib.dump of the loaded dict
_cache_track_data(rc, t, data) ==
    [u \in (DOMAIN rc) \cup {t} |-> IF u = t THEN data ELSE rc[u]]

LoaderIdle ==
    /\ raw_cache = NoRawCache
    /\ call = NoCall

\* load_track_data(track_name), lines 274-303
LoadTrackData ==
    /\ \E t \in LoaderTracks :
          IF t \in DOMAIN raw_cache
          THEN \* lines 277-278: the cached dict is returned; when joblib.load
               \* fails the handler of line 301 answers with empty data
               /\ \E loads \in BOOLEAN :
                     call' = [track |-> t, source |-> "cache",
                              result |-> IF loads THEN raw_cache[t] ELSE _return_empty_data]
               /\ UNCHANGED raw_cache
          ELSE \* lines 280-299: download, load, cache (a failed write is ignored)
               \E files \in [DataTypes -> FileKinds], writeOk \in BOOLEAN :
                  /\ call' = [track |-> t, source |-> "files", files |-> files,
                              result |-> LoadFromFiles(files)]
                  /\ raw_cache' = IF writeOk
                                  THEN _cache_track_data(raw_cache, t, LoadFromFiles(files))
                                  ELSE raw_cache
    /\ UNCHANGED <<persistent, locals, history, weatherVars, normVars, codecVars, joinVars, tireVars>>

\* ------------------------------------------- FeatureEngineer telemetry join
\* A pit row and a telemetry row are known by their (car number, lap): NUMBER
\* and LAP_NUMBER of the pit row, the number inside vehicle_id and lap of the
\* telemetry row.
CarNumbers == {2, 13}

JoinKeys == CarNumbers \X (1..MaxRows)

\* the DataFrames with at most MaxRows rows
Frames == UNION {[1..n -> JoinKeys] : n \in 0..MaxRows}

\* the order of the groupby keys
KeyLe(a, b) == a[1] < b[1] \/ (a[1] = b[1] /\ a[2] <= b[2])

RECURSIVE KeyList(_)
KeyList(S) ==
    IF S = {} THEN <<>>
    ELSE LET k == CHOOSE a \in S : \A b \in S : KeyLe(a, b)
         IN <<k>> \o KeyList(S \ {k})

\* (mutant) the telemetry rows are merged as they are, one per sample
NotAggregated(telemetry) == telemetry

\* telemetry.groupby(["NUMBER", "lap"]).agg(...).reset_index(): one row per key
Aggregate(telemetry) == KeyList(Range(telemetry))

\* the pit rows before any merge: no aggregate column
PitFrame(pit) == [r \in 1..Len(pit) |-> [key |-> pit[r], tire |-> "none", fuel |-> "none"]]

\* the rows one left row gives in df.merge(right, on=[NUMBER, LAP_NUMBER],
\* how="left"): one per matching right row, and one with NaN when none matches
MergeRow(row, right, col) ==
    LET matches == SelectSeq(right, LAMBDA k : k = row.key)
    IN IF matches = <<>>
       THEN << [row EXCEPT ![col] = "nan"] >>
       ELSE [m \in 1..Len(matches) |-> [row EXCEPT ![col] = "agg"]]

RECURSIVE LeftMerge(_, _, _)
LeftMerge(left, right, col) ==
    IF left = <<>> THEN <<>>
    ELSE MergeRow(Head(left), right, col) \o LeftMerge(Tail(left), right, col)

\* _add_telemetry_tire_features / _add_telemetry_fuel_features: df unchanged
\* when the telemetry lacks the columns or the aggregation raises (unusable),
\* else the left merge of the aggregates
AddTelemetryFeatures(df, telemetry, col, usable) ==
    IF telemetry = <<>> \/ ~usable THEN df
    ELSE LeftMerge(df, Aggregate(telemetry), col)

JoinIdle ==
    /\ pit_data = <<>>
    /\ telemetry_data = <<>>
    /\ pit_df = <<>>
    /\ join_step = 0

\* engineer_tire_features with _add_telemetry_tire_features, called at line 541
\* of create_composite_features (not reached when pit_data is empty, line 536)
AddTelemetryTireFeatures ==
    /\ join_step = 0
    /\ pit_data # <<>>
    /\ \E usable \in BOOLEAN :
          pit_df' = AddTelemetryFeatures(pit_df, telemetry_data, "tire", usable)
    /\ join_step' = 1
    /\ UNCHANGED <<pit_data, telemetry_data>>
    /\ UNCHANGED <<persistent, locals, history, weatherVars, normVars, codecVars, loaderVars, tireVars>>

\* engineer_fuel_features with _add_telemetry_fuel_features, line 542
AddTelemetryFuelFeatures ==
    /\ join_step = 1
    /\ \E usable \in BOOLEAN :
          pit_df' = AddTelemetryFeatures(pit_df, telemetry_data, "fuel", usable)
    /\ join_step' = 2
    /\ UNCHANGED <<pit_data, telemetry_data>>
    /\ UNCHANGED <<persistent, locals, history, weatherVars, normVars, codecVars, loaderVars, tireVars>>

\* --------------------------------------- TireModelTrainer stint analysis
Min2(a, b) == IF a <= b THEN a ELSE b
Max2(a, b) == IF a >= b THEN a ELSE b

\* _get_fallback_weather_conditions
_get_fallback_weather_conditions ==
    {"avg_track_temp", "track_temp_variance", "avg_air_temp", "humidity_level",
     "pressure_level"}

\* the keys of _calculate_track_conditions: the weather keys are computed from
\* the weather data or taken from the fallback
_calculate_track_conditions(weather) ==
    {"track_abrasiveness", "track_length_factor"} \cup
    (IF weather
     THEN {"avg_track_temp", "track_temp_variance", "avg_air_temp", "humidity_level",
           "pressure_level"}
     ELSE _get_fallback_weather_conditions)

\* the keys of _calculate_driving_factors: the four defaults, overwritten when
\* there is telemetry
_calculate_driving_factors(telemetry) ==
    {"estimated_lateral_force", "estimated_braking_force", "driving_aggressiveness",
     "gear_usage_efficiency"}

\* the keys of _get_fallback_features
_get_fallback_features ==
    {"lap_time_degradation_slope", "lap_time_consistency",
     "sector_1_degradation_slope", "sector_2_degradation_slope",
     "sector_3_degradation_slope", "avg_top_speed", "avg_kph", "lap_improvement_ratio",
     "caution_flag_ratio", "lap_time_variance", "performance_consistency",
     "track_abrasiveness", "track_length_factor", "stint_length", "cumulative_laps"}
    \cup _get_fallback_weather_conditions
    \cup {"estimated_lateral_force", "estimated_braking_force", "driving_aggressiveness",
          "gear_usage_efficiency"}

\* the keys set by the try block of _calculate_stint_features (lines 257-308):
\* a sector slope is computed or defaulted for each of the three sectors
StintFeatures(sectors, telemetry, weather) ==
    {"lap_time_degradation_slope", "lap_time_consistency"}
    \cup {"sector_1_degradation_slope", "sector_2_degradation_slope",
          "sector_3_degradation_slope"}
    \cup {"avg_top_speed", "avg_kph", "lap_improvement_ratio", "caution_flag_ratio",
          "lap_time_variance", "performance_consistency"}
    \cup _calculate_track_conditions(weather)
    \cup _calculate_driving_factors(telemetry)
    \cup {"stint_length", "cumulative_laps", "car_number"}

\* _calculate_stint_features: the keys of the returned dict; when the try
\* block raises, the dict is replaced by the fallback features (lines 310-313)
_calculate_stint_features(sectors, telemetry, weather, raises) ==
    IF raises THEN _get_fallback_features ELSE StintFeatures(sectors, telemetry, weather)

\* a value that may be missing: <<>> or <<v>>
Optional(S) == {<<>>} \cup {<<v>> : v \in S}

\* (mutant) a sector target without the lower clamp
SectorTargetNoFloor(d) ==
    IF d = <<>> THEN DefaultSectorTarget ELSE Min2(MaxSectorTarget, d[1])

\* degradation_s{i}, lines 394-405: max(0.001, min(0.5, degradation_per_lap)),
\* or the default when the sector is missing or has no usable average
SectorTarget(d) ==
    IF d = <<>> THEN DefaultSectorTarget
    ELSE Max2(MinTarget, Min2(MaxSectorTarget, d[1]))

\* grip_loss_rate, lines 408-415: max(0.001, min(1.0, grip_loss)), or the
\* default when an average lap time is not positive
GripTarget(g) ==
    IF g = <<>> THEN DefaultGripTarget
    ELSE Max2(MinTarget, Min2(MaxGripTarget, g[1]))

NoTargets == [s1 |-> 0, s2 |-> 0, s3 |-> 0, grip |-> 0]

\* _calculate_degradation_targets: the targets of the three sectors and the
\* grip loss rate; the defaults when the computation raises (lines 417-422)
_calculate_degradation_targets(d1, d2, d3, g, raises) ==
    IF raises
    THEN [s1 |-> DefaultSectorTarget, s2 |-> DefaultSectorTarget,
          s3 |-> DefaultSectorTarget, grip |-> DefaultGripTarget]
    ELSE [s1 |-> SectorTarget(d1), s2 |-> SectorTarget(d2), s3 |-> SectorTarget(d3),
          grip |-> GripTarget(g)]

\* the degradation per lap the lap times can give, in thousandths of a second:
\* faster laps, slightly slower, slower beyond a clamp
SectorDegradations == {-200, 250, 750}
GripLosses == {-200, 750, 1500}

\* len(car_laps.iloc[a:b]) for a list of n laps
SliceLen(n, a, b) == Max2(0, Min2(b, n) - Min2(a, n))

\* (mutant) a next stint of any length is accepted
AnyNextStint(next_len) == TRUE

\* line 229: `if len(next_stint) < 2: continue`
EnoughNextLaps(next_len) == next_len >= MinNextLaps

NoStint == [start |-> 0, current |-> 0, next |-> 0, path |-> "none", features |-> {},
            targets |-> NoTargets, appended |-> FALSE]

TireIdle ==
    /\ car_laps = 0
    /\ window_size = 0
    /\ stint_i = 0
    /\ stint = NoStint
    /\ analysis = "idle"

\* _analyze_car_stints, lines 211-223: the window size, or the early return
ChooseWindow ==
    /\ analysis = "idle"
    /\ LET max_window_size == Min2(MaxWindow, car_laps - 1)
       IN IF max_window_size < MinWindow
          THEN /\ analysis' = "returned"
               /\ UNCHANGED window_size
          ELSE /\ window_size' = Max2(MinWindow, max_window_size)
               /\ analysis' = "loop"
    /\ stint_i' = 0
    /\ UNCHANGED <<car_laps, stint>>
    /\ UNCHANGED <<persistent, locals, history, weatherVars, normVars, codecVars, loaderVars, joinVars>>

\* lines 225-230: the two stints of iteration i, and the end of the loop
SliceStints ==
    /\ analysis = "loop"
    /\ IF stint_i < car_laps - window_size
       THEN LET current_len == SliceLen(car_laps, stint_i, stint_i + window_size)
                next_len == SliceLen(car_laps, stint_i + window_size,
                                     Min2(stint_i + window_size * 2, car_laps))
            IN IF EnoughNextLaps(next_len)
               THEN /\ stint' = [NoStint EXCEPT !.start = stint_i, !.current = current_len,
                                                !.next = next_len]
                    /\ analysis' = "features"
                    /\ UNCHANGED stint_i
               ELSE \* continue
                    /\ stint_i' = stint_i + 1
                    /\ UNCHANGED <<stint, analysis>>
       ELSE \* lines 248-250
            /\ analysis' = "returned"
            /\ UNCHANGED <<stint, stint_i>>
    /\ UNCHANGED <<car_laps, window_size>>
    /\ UNCHANGED <<persistent, locals, history, weatherVars, normVars, codecVars, loaderVars, joinVars>>

\* lines 234-236: _calculate_stint_features on the current stint
CalculateStintFeatures ==
    /\ analysis = "features"
    /\ \E sectors, telemetry, weather, raises \in BOOLEAN :
          stint' = [stint EXCEPT
                      !.features = _calculate_stint_features(sectors, telemetry, weather, raises),
                      !.path = IF raises THEN "fallback" ELSE "normal"]
    /\ analysis' = "targets"
    /\ UNCHANGED <<car_laps, window_size, stint_i>>
    /\ UNCHANGED <<persistent, locals, history, weatherVars, normVars, codecVars, loaderVars, joinVars>>

\* lines 239-242: _calculate_degradation_targets, and the pair is appended
CalculateDegradationTargets ==
    /\ analysis = "targets"
    /\ \E d1, d2, d3 \in Optional(SectorDegradations), g \in Optional(GripLosses),
          raises \in BOOLEAN :
          stint' = [stint EXCEPT
                      !.targets = _calculate_degradation_targets(d1, d2, d3, g, raises),
                      !.appended = TRUE]
    /\ stint_i' = stint_i + 1
    /\ analysis' = "loop"
    /\ UNCHANGED <<car_laps, window_size>>
    /\ UNCHANGED <<persistent, locals, history, weatherVars, normVars, codecVars, loaderVars, joinVars>>

\* ------------------------------------ WeatherModelTrainer lap weather match
\* timedelta(minutes=10) of _get_lap_weather_conditions (weather_trainer.py:248)
WeatherTolerance == 10

\* a car with fewer laps is left out (weather_trainer.py:153)
MinCarLaps == 3

\* _get_lap_weather_conditions returns a weather row (TRUE) or None (FALSE):
\* None when there is no weather data or time_diff[closest_idx], the distance
\* to the nearest sample, is greater than the tolerance
_get_lap_weather_conditions(t, samples) ==
    /\ samples # {}
    /\ ~(Min({IF w >= t THEN w - t ELSE t - w : w \in samples}) > WeatherTolerance)

\* one iteration of the loop over the laps of a car, lines 159-170 of
\* _extract_weather_features: `if lap_weather is None: continue`
ExtractLapWeather ==
    /\ lap_k < Len(lap_timestamps)
    /\ lap_k' = lap_k + 1
    /\ weather_samples' =
          IF _get_lap_weather_conditions(lap_timestamps[lap_k + 1], weather_timestamps)
          THEN Append(weather_samples, lap_k + 1)
          ELSE weather_samples
    /\ UNCHANGED <<lap_timestamps, weather_timestamps>>
    /\ UNCHANGED <<persistent, locals, history, loaderVars, joinVars, tireVars,
                   normVars, codecVars>>

WeatherIdle ==
    /\ lap_timestamps = <<>>
    /\ weather_timestamps = {}
    /\ lap_k = 0
    /\ weather_samples = <<>>

\* ------------------------------------ DataPreprocessor._normalize_dataframe
NormIdle ==
    /\ df_columns = <<>>
    /\ df_cell = <<>>
    /\ passes = 0

\* a text is a sequence of characters; [0-9A-Za-z_] of _clean_col:
WordChars == {"A", "B", "a", "b", "1", "2", "3", "4", "5", "6", "7", "8", "9", "0", "_"}

\* str.upper()
upper(s) ==
    [i \in 1..Len(s) |->
        CASE s[i] = "a" -> "A"
          [] s[i] = "b" -> "B"
          [] s[i] = "n" -> "N"
          [] s[i] = "u" -> "U"
          [] s[i] = "l" -> "L"
          [] s[i] = "o" -> "O"
          [] s[i] = "e" -> "E"
          [] OTHER -> s[i]]

\* str.lstrip(chars) and str.rstrip(chars)
RECURSIVE lstrip(_, _)
lstrip(s, chars) ==
    IF s # <<>> /\ Head(s) \in chars THEN lstrip(Tail(s), chars) ELSE s

RECURSIVE rstrip(_, _)
rstrip(s, chars) ==
    IF s # <<>> /\ s[Len(s)] \in chars
    THEN rstrip(SubSeq(s, 1, Len(s) - 1), chars)
    ELSE s

\* str.strip(): white space on both ends
strip(s) == rstrip(lstrip(s, {" "}), {" "})

\* re.sub(r'[^0-9A-Za-z_]+', '_', col): every run of other characters
\* becomes one underscore
RECURSIVE SubNonWord(_)
SubNonWord(s) ==
    IF s = <<>> THEN <<>>
    ELSE IF Head(s) \in WordChars THEN <<Head(s)>> \o SubNonWord(Tail(s))
    ELSE IF Len(s) > 1 /\ s[2] \notin WordChars THEN SubNonWord(Tail(s))
    ELSE <<"_">> \o SubNonWord(Tail(s))

\* re.sub(r'__+', '_', col): every run of underscores becomes one
RECURSIVE SubUnderscores(_)
SubUnderscores(s) ==
    IF s = <<>> THEN <<>>
    ELSE IF Head(s) = "_" /\ Len(s) > 1 /\ s[2] = "_" THEN SubUnderscores(Tail(s))
    ELSE <<Head(s)>> \o SubUnderscores(Tail(s))

\* DataPreprocessor._clean_col
_clean_col(col) ==
    LET a == strip(lstrip(col, {"BOM"}))
        b == SubNonWord(a)
        c == SubUnderscores(b)
        d == rstrip(lstrip(c, {"_"}), {"_"})
    IN  upper(d)

\* str(n) of a duplicate count
DigitText(n) == << <<"0">>, <<"1">>, <<"2">>, <<"3">>, <<"4">>, <<"5">>,
                   <<"6">>, <<"7">>, <<"8">>, <<"9">> >>[n + 1]

\* the loop over cols of _normalize_dataframe: seen counts the repeats of a
\* name, a repeated name gets the suffix _<count>
RECURSIVE UniqueCols(_, _, _, _)
UniqueCols(cols, i, seen, unique_cols) ==
    IF i > Len(cols) THEN unique_cols
    ELSE LET c == cols[i] IN
         IF c \in DOMAIN seen
         THEN UniqueCols(cols, i + 1,
                         [seen EXCEPT ![c] = @ + 1],
                         Append(unique_cols, c \o <<"_">> \o DigitText(seen[c] + 1)))
         ELSE UniqueCols(cols, i + 1,
                         [n \in DOMAIN seen \cup {c} |-> IF n = c THEN 0 ELSE seen[n]],
                         Append(unique_cols, c))

\* a cell of an object column: a text or the missing value np.nan
Cell(isnan, s) == [isnan |-> isnan, s |-> s]

\* the texts that stand for no value
Markers ==
    [None |-> <<"N", "o", "n", "e">>, nan |-> <<"n", "a", "n">>, NaN |-> <<"N", "a", "N">>,
     null |-> <<"n", "u", "l", "l">>, NULL |-> <<"N", "U", "L", "L">>]

\* .replace({'None': '', 'nan': '', 'NaN': '', 'null': '', 'NULL': '',
\* '': np.nan}): each cell is replaced once, by the entry of its own value
ReplaceMarkers(s) ==
    IF s \in {Markers.None, Markers.nan, Markers.NaN, Markers.null, Markers.NULL}
    THEN Cell(FALSE, <<>>)
    ELSE IF s = <<>> THEN Cell(TRUE, <<>>)
    ELSE Cell(FALSE, s)

\* the cleaning loop, df[c].astype(str).str.strip().replace(...): astype(str)
\* makes the text 'nan' of a missing value; df[c] of a name that two columns
\* carry is a frame without .str, the exception is caught and the cells stay
\* as they are
CleanCells(cols, cells) ==
    [i \in 1..Len(cells) |->
        IF \E j \in 1..Len(cols) : j # i /\ cols[j] = cols[i]
        THEN cells[i]
        ELSE ReplaceMarkers(strip(IF cells[i].isnan THEN Markers.nan ELSE cells[i].s))]

\* DataPreprocessor._normalize_dataframe
NormalizeDataframe ==
    /\ df_columns # <<>>
    /\ passes < MaxPasses
    /\ df_columns' = UniqueCols([i \in 1..Len(df_columns) |-> _clean_col(df_columns[i])],
                                1, <<>>, <<>>)
    /\ df_cell' = CleanCells(df_columns', df_cell)
    /\ passes' = passes + 1
    /\ UNCHANGED <<persistent, locals, history, loaderVars, joinVars, tireVars,
                   weatherVars, codecVars>>

\* --------------------------------------- DataPreprocessor.time_to_seconds
\* a float: kind "num" with its number (whole seconds) or kind "nan"; kind
\* "err" is a raised ValueError, kind "none" is no call yet
Value(kind, n) == [kind |-> kind, v |-> n]

CodecIdle ==
    /\ time_str = <<>>
    /\ seconds = Value("none", 0)

IsDigits(s) ==
    s # <<>> /\ \A i \in 1..Len(s) : s[i] \in {"0", "1", "2", "3", "4", "5", "6", "7", "8", "9"}

RECURSIVE DigitsValue(_)
DigitsValue(s) ==
    IF s = <<>> THEN 0
    ELSE 10 * DigitsValue(SubSeq(s, 1, Len(s) - 1))
         + (CHOOSE n \in 0..9 : DigitText(n) = <<s[Len(s)]>>)

\* float(s) of Python: white space around the text is dropped, one sign is
\* allowed, the text is a decimal number or nan in any case
float(s) ==
    LET t == strip(s)
        signed == t # <<>> /\ Head(t) \in {"+", "-"}
        body == IF signed THEN Tail(t) ELSE t
        negative == signed /\ Head(t) = "-"
    IN  IF IsDigits(body)
        THEN Value("num", IF negative THEN 0 - DigitsValue(body) ELSE DigitsValue(body))
        ELSE IF upper(body) = upper(Markers.nan) THEN Value("nan", 0)
        ELSE Value("err", 0)

\* float arithmetic a * k + b: nan and a raised error go through
MulAdd(a, k, b) ==
    IF a.kind = "err" \/ b.kind = "err" THEN Value("err", 0)
    ELSE IF a.kind = "nan" \/ b.kind = "nan" THEN Value("nan", 0)
    ELSE Value("num", a.v * k + b.v)

\* s.split(':')
RECURSIVE split(_)
split(s) ==
    IF \A i \in 1..Len(s) : s[i] # ":" THEN <<s>>
    ELSE LET i == CHOOSE k \in 1..Len(s) :
                      s[k] = ":" /\ \A j \in 1..(k - 1) : s[j] # ":"
         IN  <<SubSeq(s, 1, i - 1)>> \o split(SubSeq(s, i + 1, Len(s)))

\* the tokens that stand for no value
Sentinels == {<<"-">>, Markers.NULL, upper(Markers.None), upper(Markers.nan), Markers.NaN}

\* the mutant of Caught: no except clause
NotCaught(r) == r

\* except (ValueError, TypeError, AttributeError): return 0.0
Caught(r) == IF r.kind = "err" THEN Value("num", 0) ELSE r

\* DataPreprocessor.time_to_seconds on a text token (pd.isna and == 0 are
\* false for a text)
time_to_seconds(tok) ==
    LET s == strip(tok)
        direct == float(s)
        t == lstrip(lstrip(s, {"+"}), {"-"})
        parts == split(t)
    IN  IF s = <<>> \/ upper(s) \in Sentinels THEN Value("num", 0)
        ELSE IF direct.kind # "err" THEN direct
        ELSE Caught(
               IF Len(parts) = 3
               THEN MulAdd(MulAdd(float(parts[1]), 60, float(parts[2])), 60,
                           float(parts[3]))
               ELSE IF Len(parts) = 2
               THEN MulAdd(float(parts[1]), 60, float(parts[2]))
               ELSE float(t))

\* one call of time_to_seconds
TimeToSeconds ==
    /\ seconds = Value("none", 0)
    /\ time_str # <<>>
    /\ seconds' = time_to_seconds(time_str)
    /\ UNCHANGED time_str
    /\ UNCHANGED <<persistent, locals, history, loaderVars, joinVars, tireVars,
                   weatherVars, normVars>>

\* ---------------------------------------------------------------- Init
NoAttempts == [t \in Tracks |-> 0]
NoOutcome == [t \in Tracks |-> "none"]
NoCalls == [n \in TrainerNames |-> 0]
NotReturned == [returned |-> FALSE, models |-> NoModels]

\* a fresh working directory and no process running
FreshStart ==
    /\ training_state = DefaultState
    /\ cache = NoData
    /\ models_dir = {}
    /\ pc = "idle"
    /\ state_models = EmptyDict
    /\ available_tracks = <<>>
    /\ remaining_tracks = <<>>
    /\ idx = 0
    /\ processed_tracks = <<>>
    /\ all_processed_data = NoData
    /\ track_data = "none"
    /\ models = NoModels
    /\ result = NotReturned
    /\ attempts = NoAttempts
    /\ outcome = NoOutcome
    /\ startProcessed = {}
    /\ trainerCalls = NoCalls
    /\ statuses = [n \in TrainerNames |-> "none"]
    /\ handed = {}
    /\ prevFailed = {}
    /\ epoch = "first"
    /\ changes = 0
    /\ trainedOn = {}

Init ==
    /\ storage \in [Tracks -> StorageKinds]
    /\ FreshStart
    /\ LoaderIdle
    /\ JoinIdle
    /\ TireIdle
    /\ WeatherIdle
    /\ NormIdle
    /\ CodecIdle

\* the process is gone: its memory and the observations of its run are reset
ResetRun ==
    /\ state_models' = EmptyDict
    /\ available_tracks' = <<>>
    /\ remaining_tracks' = <<>>
    /\ idx' = 0
    /\ processed_tracks' = <<>>
    /\ all_processed_data' = NoData
    /\ track_data' = "none"
    /\ models' = NoModels
    /\ result' = NotReturned
    /\ attempts' = NoAttempts
    /\ outcome' = NoOutcome
    /\ startProcessed' = {}
    /\ trainerCalls' = NoCalls
    /\ statuses' = [n \in TrainerNames |-> "none"]
    /\ handed' = {}

\* the tracks appended to processed_tracks in the current run
Marked == Range(processed_tracks) \ startProcessed

\* the tracks whose processing raised in the current run
Failed == {t \in Tracks : outcome[t] = "raised"}

\* ------------------------------------------------------------- actions
\* train_all_models, lines 29-50: load the checkpoint and decide what to do
StartRun ==
    /\ pc = "idle"
    /\ LET state == _load_training_state
           avail == list_available_tracks
           processed == Get(state, "processed_tracks", <<>>)
           rem == Remaining(avail, processed)
       IN /\ startProcessed' = Range(processed)
          /\ state_models' = Get(state, "models", EmptyDict)
          /\ IF AlreadyCompleted(state)
             THEN \* lines 33-35
                  /\ pc' = "done"
                  /\ result' = [returned |-> TRUE, models |-> _load_existing_models]
                  /\ available_tracks' = <<>>
                  /\ remaining_tracks' = <<>>
                  /\ processed_tracks' = <<>>
                  /\ all_processed_data' = NoData
                  /\ idx' = 0
             ELSE IF avail = <<>>
             THEN \* lines 38-40
                  /\ pc' = "done"
                  /\ result' = [returned |-> TRUE, models |-> NoModels]
                  /\ available_tracks' = avail
                  /\ remaining_tracks' = <<>>
                  /\ processed_tracks' = <<>>
                  /\ all_processed_data' = NoData
                  /\ idx' = 0
             ELSE IF rem = <<>>
             THEN \* lines 45-47
                  /\ pc' = "finalize"
                  /\ result' = NotReturned
                  /\ available_tracks' = avail
                  /\ remaining_tracks' = rem
                  /\ processed_tracks' = processed
                  /\ all_processed_data' = NoData
                  /\ idx' = 0
             ELSE \* lines 49-50
                  /\ pc' = "loop"
                  /\ result' = NotReturned
                  /\ available_tracks' = avail
                  /\ remaining_tracks' = rem
                  /\ processed_tracks' = processed
                  /\ all_processed_data' = _load_processed_data_state
                  /\ idx' = 1
    /\ UNCHANGED persistent
    /\ UNCHANGED <<track_data, models>>
    /\ UNCHANGED <<attempts, outcome, trainerCalls, handed, statuses, prevFailed, epoch, changes,
                   trainedOn>>
    /\ UNCHANGED components

\* _finalize_training, lines 301-305
FinalizeTraining ==
    /\ pc = "finalize"
    /\ training_state' = _update_training_state([completed |-> TRUE])
    /\ result' = [returned |-> TRUE, models |-> _load_existing_models]
    /\ pc' = "done"
    /\ UNCHANGED <<storage, cache, models_dir>>
    /\ UNCHANGED <<state_models, available_tracks, remaining_tracks, idx, processed_tracks,
                   all_processed_data, track_data, models>>
    /\ UNCHANGED history
    /\ UNCHANGED components

\* _process_single_track (lines 88-116) called at line 55, with the except
\* branch of lines 67-69
ProcessSingleTrack ==
    /\ pc = "loop"
    /\ idx <= Len(remaining_tracks)
    /\ LET track == remaining_tracks[idx]
       IN /\ cache[track] = "none" => FetchReturns(storage[track])
          /\ attempts' = [attempts EXCEPT ![track] =
                            IF @ < MaxAttempts THEN @ + 1 ELSE @]
          /\ IF cache[track] # "none"
             THEN \* lines 90-93: the cached artifact is returned
                  /\ track_data' = cache[track]
                  /\ outcome' = [outcome EXCEPT ![track] = "ok"]
                  /\ pc' = "update"
                  /\ UNCHANGED <<cache, idx>>
             ELSE IF storage[track] = "raise"
             THEN \* an exception leaves _process_single_track: lines 67-69
                  /\ outcome' = [outcome EXCEPT ![track] = "raised"]
                  /\ track_data' = "none"
                  /\ idx' = idx + 1
                  /\ pc' = AfterException(idx + 1, remaining_tracks)
                  /\ UNCHANGED cache
             ELSE \* lines 98-116: fetch, preprocess, features, cache write
                  /\ \E writeOk \in BOOLEAN :
                        cache' = IF writeOk
                                 THEN [cache EXCEPT ![track] = ProcessedArtifact(storage[track])]
                                 ELSE cache
                  /\ track_data' = ProcessedArtifact(storage[track])
                  /\ outcome' = [outcome EXCEPT ![track] = "ok"]
                  /\ pc' = "update"
                  /\ UNCHANGED idx
    /\ UNCHANGED <<storage, training_state, models_dir>>
    /\ UNCHANGED <<state_models, available_tracks, remaining_tracks, processed_tracks,
                   all_processed_data, models, result>>
    /\ UNCHANGED <<startProcessed, trainerCalls, handed, statuses, prevFailed, epoch, changes,
                   trainedOn>>
    /\ UNCHANGED components

\* (mutant) the track is appended a second time when the updates are built
TrackUpdatesTwice(processed, apd) ==
    [processed_tracks |-> Append(processed, processed[Len(processed)]),
     processed_data_keys |-> Keys(apd)]

\* the updates dict of lines 59-62
TrackUpdates(processed, apd) ==
    [processed_tracks |-> processed, processed_data_keys |-> Keys(apd)]

\* train_all_models, lines 56-62 (and 65-66): record the track and checkpoint it
MarkProcessed ==
    /\ pc = "update"
    /\ LET track == remaining_tracks[idx]
       IN IF Truthy(track_data)
          THEN /\ all_processed_data' = [all_processed_data EXCEPT ![track] = track_data]
               /\ processed_tracks' = Append(processed_tracks, track)
               /\ training_state' =
                     _update_training_state(TrackUpdates(processed_tracks', all_processed_data'))
               /\ pc' = "save"
               /\ UNCHANGED idx
          ELSE /\ idx' = idx + 1
               /\ pc' = AfterTrack(idx + 1, remaining_tracks)
               /\ UNCHANGED <<all_processed_data, processed_tracks, training_state>>
    /\ UNCHANGED <<storage, cache, models_dir>>
    /\ UNCHANGED <<state_models, available_tracks, remaining_tracks, track_data, models, result>>
    /\ UNCHANGED history
    /\ UNCHANGED components

\* _save_track_data (lines 263-268) called at line 63
SaveTrackData ==
    /\ pc = "save"
    /\ LET track == remaining_tracks[idx]
       IN \E writeOk \in BOOLEAN :
             cache' = IF writeOk THEN [cache EXCEPT ![track] = track_data] ELSE cache
    /\ idx' = idx + 1
    /\ pc' = AfterTrack(idx + 1, remaining_tracks)
    /\ UNCHANGED <<storage, training_state, models_dir>>
    /\ UNCHANGED <<state_models, available_tracks, remaining_tracks, processed_tracks,
                   all_processed_data, track_data, models, result>>
    /\ UNCHANGED history
    /\ UNCHANGED components

\* ------------------------------------------------------------- Trainers
\* the status values a Trainer's result can carry
TrainerStatuses(name) ==
    IF name \in {"fuel_consumption", "weather_impact"}
    THEN {"success", "fallback", "error"}
    ELSE {"success", "error"}

\* which Trainers _train_models_with_processed_data calls for a set of valid
\* tracks: tire and fuel always, pit strategy and weather from MinTracks on
TrainerInvoked(name, valid) ==
    \/ name \in {"tire_degradation", "fuel_consumption"}
    \/ Cardinality(valid) >= MinTracks

\* TireModelTrainer.train answers an error below MinTracks tracks; otherwise
\* the status of a Trainer depends on its data (input s)
TrainerResult(name, valid, s) ==
    IF name = "tire_degradation" /\ Cardinality(valid) < MinTracks THEN "error" ELSE s

\* (mutant) a result of synthetic data is stored like a trained model
StoreFallbackAsModel(status) == IF status \in {"success", "fallback"} THEN "ok" ELSE "err"

\* the entry the orchestrator stores for a Trainer's result
StoreResult(status) == IF status = "success" THEN "ok" ELSE "err"

\* validate_training_results on one entry of the models dict
ValidationStatus(entry) == IF entry = "err" THEN "FAILED" ELSE "SUCCESS"

\* valid_tracks of _train_models_with_processed_data
ValidTracks(apd) == {t \in Tracks : apd[t] = "full"}

\* _save_models: one file per entry of the models dict
_save_models(dir, m) == dir \cup {n \in TrainerNames : m[n] # "none"}

\* train_all_models lines 71-73 and 81-83 with _train_models_with_processed_data
TrainModels ==
    /\ pc = "train"
    /\ LET valid == ValidTracks(all_processed_data)
       IN IF Keys(all_processed_data) = {}
          THEN \* lines 81-83
               /\ result' = [returned |-> TRUE, models |-> NoModels]
               /\ pc' = "done"
               /\ UNCHANGED <<models, models_dir, trainerCalls, handed, statuses>>
          ELSE IF state_models.kind = "list" /\ ModelsTruthy(state_models)
          THEN \* models is the list of names stored by an earlier run: the first
               \* item assignment (or models.keys() at line 77) raises
               /\ pc' = "raised"
               /\ trainerCalls' = IF valid = {} THEN trainerCalls
                                  ELSE [trainerCalls EXCEPT !["tire_degradation"] = 1]
               /\ handed' = valid
               /\ UNCHANGED <<models, models_dir, statuses, result>>
          ELSE IF valid = {}
          THEN \* lines 132-134
               /\ pc' = "final"
               /\ UNCHANGED <<models, models_dir, trainerCalls, handed, statuses, result>>
          ELSE \* lines 138-202
               /\ \E status \in [TrainerNames -> {"success", "fallback", "error"}] :
                     /\ \A n \in TrainerNames : status[n] \in TrainerStatuses(n)
                     /\ statuses' = [n \in TrainerNames |->
                                       IF TrainerInvoked(n, valid)
                                       THEN TrainerResult(n, valid, status[n])
                                       ELSE "none"]
                     /\ models' = [n \in TrainerNames |->
                                     IF TrainerInvoked(n, valid)
                                     THEN StoreResult(statuses'[n])
                                     ELSE "none"]
               /\ models_dir' = _save_models(models_dir, models')
               /\ trainerCalls' = [n \in TrainerNames |->
                                     IF TrainerInvoked(n, valid) THEN 1 ELSE 0]
               /\ handed' = valid
               /\ pc' = "final"
               /\ UNCHANGED result
    /\ UNCHANGED <<storage, training_state, cache>>
    /\ UNCHANGED <<state_models, available_tracks, remaining_tracks, idx, processed_tracks,
                   all_processed_data, track_data>>
    /\ UNCHANGED <<attempts, outcome, startProcessed, prevFailed, epoch, changes>>
    /\ trainedOn' = IF handed' # {} THEN trainedOn \cup Keys(all_processed_data) ELSE trainedOn
    /\ UNCHANGED components

\* the updates dict of lines 74-79
FinalUpdates(processed, apd, m, avail) ==
    [processed_tracks |-> processed,
     processed_data_keys |-> Keys(apd),
     models |-> [kind |-> "list", names |-> {n \in TrainerNames : m[n] # "none"}],
     completed |-> (Len(processed) = Len(avail))]

\* train_all_models lines 74-80: the final checkpoint update
FinalUpdate ==
    /\ pc = "final"
    /\ training_state' = _update_training_state(
          FinalUpdates(processed_tracks, all_processed_data, models, available_tracks))
    /\ result' = [returned |-> TRUE, models |-> models]
    /\ pc' = "done"
    /\ UNCHANGED <<storage, cache, models_dir>>
    /\ UNCHANGED <<state_models, available_tracks, remaining_tracks, idx, processed_tracks,
                   all_processed_data, track_data, models>>
    /\ UNCHANGED history
    /\ UNCHANGED components

\* the process is killed while train_all_models runs: its memory is lost
Kill ==
    /\ pc \in {"finalize", "loop", "update", "save", "train", "final"}
    /\ pc' = "idle"
    /\ ResetRun
    /\ prevFailed' = IF Marked # {} THEN Failed ELSE {}
    /\ epoch' = IF epoch = "first" THEN "resumed" ELSE epoch
    /\ UNCHANGED persistent
    /\ UNCHANGED <<changes, trainedOn>>
    /\ UNCHANGED components

\* train_all_models has returned or raised and the process exits
Exit ==
    /\ pc \in {"done", "raised"}
    /\ pc' = "idle"
    /\ ResetRun
    /\ prevFailed' = IF Marked # {} THEN Failed ELSE {}
    /\ epoch' = "later"
    /\ UNCHANGED persistent
    /\ UNCHANGED <<changes, trainedOn>>
    /\ UNCHANGED components

\* between two runs the bucket is changed from outside: a track is added,
\* removed, repaired or broken
ExternalChange ==
    /\ pc = "idle"
    /\ changes < MaxChanges
    /\ \E t \in Tracks, k \in StorageKinds :
          /\ k # storage[t]
          /\ storage' = [storage EXCEPT ![t] = k]
    /\ changes' = changes + 1
    /\ epoch' = "later"
    /\ UNCHANGED <<training_state, cache, models_dir>>
    /\ UNCHANGED locals
    /\ UNCHANGED <<runHistory, prevFailed, trainedOn>>
    /\ UNCHANGED components

Next ==
    \/ StartRun
    \/ FinalizeTraining
    \/ ProcessSingleTrack
    \/ MarkProcessed
    \/ SaveTrackData
    \/ TrainModels
    \/ FinalUpdate
    \/ Kill
    \/ Exit
    \/ ExternalChange

Spec == Init /\ [][Next]_vars

TypeOK ==
    /\ storage \in [Tracks -> StorageKinds \cup FaultKinds]
    /\ cache \in [Tracks -> ArtifactKinds \cup {"none"}]
    /\ models_dir \subseteq TrainerNames
    /\ pc \in {"idle", "finalize", "loop", "update", "save", "train", "final", "done", "raised"}
    /\ idx \in 0..(NumTracks + 1)
    /\ attempts \in [Tracks -> 0..MaxAttempts]
    /\ epoch \in {"first", "resumed", "later"}
    /\ changes \in 0..MaxChanges

\* =================================================================
\* Properties
\* =================================================================
\* the processed_tracks list of the persisted checkpoint
PersistedProcessed == Get(training_state, "processed_tracks", <<>>)

\* the result of one uninterrupted run of train_all_models from the empty
\* checkpoint over the present storage: every listed track whose processing
\* does not raise is marked processed, in the listing order, and the Trainers
\* get the tracks that have pit data
UninterruptedProcessed == SelectSeq(list_available_tracks, LAMBDA t : storage[t] # "raise")
UninterruptedHanded == {t \in Tracks : storage[t] = "full"}

\* C1: resume equivalence - a run that reaches its end after earlier runs over
\* the same storage were killed (and the uninterrupted run itself) hands the
\* Trainers the same per-track artifacts and leaves the same persisted
\* processed_tracks as one uninterrupted run.
C1_ResumeEquivalence ==
    (pc = "done" /\ epoch \in {"first", "resumed"}) =>
        /\ handed = UninterruptedHanded
        /\ PersistedProcessed = UninterruptedProcessed

\* the same statement for the uninterrupted run alone (the reference result)
C1_UninterruptedRun ==
    (pc = "done" /\ epoch = "first") =>
        /\ handed = UninterruptedHanded
        /\ PersistedProcessed = UninterruptedProcessed

C3_NoDoubleCounting ==
    /\ NoDuplicates(PersistedProcessed)
    /\ NoDuplicates(processed_tracks)
    /\ Keys(all_processed_data) \subseteq Range(processed_tracks)
    /\ Cardinality(Keys(all_processed_data)) <= Len(processed_tracks)
    /\ handed \subseteq Keys(all_processed_data)

\* a resumed run has appended a track to a non-empty processed_tracks
C3_Witness ==
    /\ pc = "save"
    /\ epoch # "first"
    /\ startProcessed # {}
    /\ Len(PersistedProcessed) >= 2

\* C4: a track is checkpointed atomically - every track of the persisted
\* processed_tracks has its cached artifact {track}_processed.pkl.
C4_AtomicCheckpoint ==
    \A t \in Range(PersistedProcessed) : cache[t] # "none"

C6_PartialFailureIsolation ==
    ( /\ pc = "done"
      /\ epoch = "first"
      /\ Cardinality({t \in Tracks : storage[t] = "fetchfail"}) = 1
      /\ \A t \in Tracks : storage[t] \in {"full", "fetchfail"} ) =>
        /\ Range(PersistedProcessed) = {t \in Tracks : storage[t] = "full"}
        /\ handed = {t \in Tracks : storage[t] = "full"}
        /\ trainerCalls["tire_degradation"] = 1

\* C7: failure containment - a track whose processing raised is not in
\* processed_tracks, no track is attempted twice in one run, and once the loop
\* is over every remaining track has been attempted.
C7_FailureContainment ==
    /\ \A t \in Tracks :
          /\ attempts[t] <= 1
          /\ outcome[t] = "raised" =>
                (t \notin Range(processed_tracks) /\ t \notin Range(PersistedProcessed))
    /\ (pc \in {"train", "final", "done", "raised"}) =>
          \A i \in 1..Len(remaining_tracks) : attempts[remaining_tracks[i]] = 1

\* the loop is over, a track raised and a later track was still processed
C7_Witness ==
    /\ pc = "train"
    /\ \E i, j \in 1..Len(remaining_tracks) :
          /\ i < j
          /\ outcome[remaining_tracks[i]] = "raised"
          /\ outcome[remaining_tracks[j]] = "ok"

\* C8: a track whose raw-data fetch fails is not added to the persisted
\* processed_tracks (and so stays among the remaining tracks of the next run).
C8_FetchFailureRetryable ==
    (changes = 0) =>
        \A t \in Tracks : storage[t] = "fetchfail" => t \notin Range(PersistedProcessed)

\* C9: with completed = true in the checkpoint, train_all_models returns the
\* stored models at once: no track is processed, no Trainer is invoked, the
\* checkpoint, the per-track artifacts and the model files stay as they are.
C9_CompletedReturnsCached ==
    [][ (pc = "idle" /\ pc' # "idle" /\ Get(training_state, "completed", FALSE)) =>
            /\ pc' = "done"
            /\ result'.returned
            /\ result'.models = [n \in TrainerNames |->
                                   IF n \in models_dir THEN "file" ELSE "none"]
            /\ training_state' = training_state
            /\ cache' = cache
            /\ models_dir' = models_dir
            /\ attempts' = NoAttempts
            /\ trainerCalls' = NoCalls ]_vars

\* a run that found completed = true has returned (it never listed the tracks)
C9_Witness ==
    /\ pc = "done"
    /\ Get(training_state, "completed", FALSE)
    /\ available_tracks = <<>>
    /\ list_available_tracks # <<>>
    /\ result.returned

\* the Trainers that need MinTracks tracks
ThresholdTrainers == {"tire_degradation", "pit_strategy", "weather_impact"}

\* C10: minimum-track threshold - when the Trainers run on fewer than MinTracks
\* valid tracks, every Trainer that needs MinTracks tracks is skipped: it has no
\* entry in the models dict (so no error entry, nothing reported FAILED), and
\* the fuel Trainer still runs.
C10_BelowMinimumSkipped ==
    (pc = "final" /\ handed # {} /\ Cardinality(handed) < MinTracks) =>
        /\ \A n \in ThresholdTrainers :
              /\ models[n] # "err"
              /\ ValidationStatus(models[n]) # "FAILED"
        /\ trainerCalls["fuel_consumption"] = 1

\* the threshold of a Trainer is met: the fuel Trainer takes any number of
\* tracks, the others need MinTracks
ThresholdMet(name, valid) == name = "fuel_consumption" \/ Cardinality(valid) >= MinTracks

\* C11: a run that finishes its track loop with at least one usable artifact
\* invokes every Trainer whose threshold is met exactly once, on all usable
\* artifacts, whatever checkpoint the earlier runs left.
C11_TrainersInvokedOnce ==
    ( /\ pc \in {"final", "done", "raised"}
      /\ remaining_tracks # <<>>
      /\ ValidTracks(all_processed_data) # {} ) =>
        /\ handed = ValidTracks(all_processed_data)
        /\ \A n \in TrainerNames :
              ThresholdMet(n, ValidTracks(all_processed_data)) => trainerCalls[n] = 1

\* a usable artifact exists: in the aggregate of the run or in the cache of a
\* processed track
UsableExists ==
    \/ ValidTracks(all_processed_data) # {}
    \/ \E t \in Range(PersistedProcessed) : cache[t] = "full"

\* C12: a run over a non-empty track listing for which a usable track exists
\* returns the results of the Trainers (a non-empty models dict); the empty
\* result is kept for the total absence of usable tracks.
C12_FailureOnlyWithoutUsableTrack ==
    ( /\ pc \in {"done", "raised"}
      /\ available_tracks # <<>>
      /\ UsableExists ) =>
        /\ pc = "done"
        /\ result.returned
        /\ \E n \in TrainerNames : result.models[n] # "none"

\* ------------------------------------------------- faults of the storage
\* the pipeline started on a bucket whose tracks are complete, have a pit/lap
\* file without rows, or have files whose download never returns
FaultInit ==
    /\ storage \in [Tracks -> FaultKinds]
    /\ FreshStart
    /\ LoaderIdle
    /\ JoinIdle
    /\ TireIdle
    /\ WeatherIdle
    /\ NormIdle
    /\ CodecIdle

\* the statements of the running process: train_all_models is one sequential
\* thread, so a statement that can execute does execute (unless the process
\* is killed)
Running ==
    \/ FinalizeTraining
    \/ ProcessSingleTrack
    \/ MarkProcessed
    \/ SaveTrackData
    \/ TrainModels
    \/ FinalUpdate

FaultSpec == FaultInit /\ [][Next]_vars /\ WF_vars(Running)

\* C13: bounded per-track timeout - a run that is in its track loop eventually
\* ends (returns, raises, or is killed), also when the fetch of a track never
\* returns: the track is given up and the run proceeds.
C13_RunTerminates ==
    (pc \in {"loop", "update", "save", "train", "final"}) ~> (pc \in {"idle", "done", "raised"})

\* C15: a track whose pit/lap source has zero rows is skipped, it is not
\* recorded as processed (neither in the run's memory nor in the checkpoint).
C15_ZeroRowsSkipped ==
    \A t \in Tracks :
        (changes = 0 /\ storage[t] = "zerorows") =>
            /\ t \notin Range(processed_tracks)
            /\ t \notin Range(PersistedProcessed)
            /\ all_processed_data[t] = "none"

\* the keys a checkpoint update passes when the process is at position p
UpdatedKeys(p) ==
    IF p = "update" THEN {"processed_tracks", "processed_data_keys"}
    ELSE IF p = "finalize" THEN {"completed"}
    ELSE {"processed_tracks", "processed_data_keys", "models", "completed"}

\* the model names stored in the checkpoint
PersistedModels == Get(training_state, "models", EmptyDict).names

NoBucket == [t \in Tracks |-> "absent"]

LoaderInit ==
    /\ storage = NoBucket
    /\ FreshStart
    /\ LoaderIdle
    /\ JoinIdle
    /\ TireIdle
    /\ WeatherIdle
    /\ NormIdle
    /\ CodecIdle

LoaderNext == LoadTrackData

LoaderSpec == LoaderInit /\ [][LoaderNext]_vars

\* C16: a record kind that lacks a required field is loaded as empty, the
\* other record kinds of the track are loaded from their own files, what is
\* held for the other tracks is not touched, and load_track_data returns a
\* dict with its four DataFrames (no exception leaves it).
C16_OnlyBatchSkipped ==
    [][ call'.source = "files" =>
          /\ DOMAIN call'.result = DataTypes
          /\ \A d \in DataTypes :
                /\ (call'.files[d] = "lacks" /\ HasRequiredCols(d)) => call'.result[d] = "empty"
                /\ call'.files[d] = "ok" => call'.result[d] = "rows"
          /\ \A u \in LoaderTracks \ {call'.track} :
                /\ u \in DOMAIN raw_cache' <=> u \in DOMAIN raw_cache
                /\ u \in DOMAIN raw_cache => raw_cache'[u] = raw_cache[u] ]_vars

\* a track was loaded with one kind lacking a required field and another kind
\* complete, while another track is held in the loader's cache
C16_Witness ==
    /\ call.source = "files"
    /\ \E d, e \in DataTypes :
          /\ call.files[d] = "lacks" /\ HasRequiredCols(d)
          /\ call.files[e] = "ok" /\ call.result[e] = "rows"
    /\ \E u \in LoaderTracks \ {call.track} :
          u \in DOMAIN raw_cache /\ \E d \in DataTypes : raw_cache[u][d] = "rows"

\* --------------------------------------------- the telemetry join on its own
\* create_composite_features is handed any pit rows and any telemetry rows
JoinInit ==
    /\ storage = NoBucket
    /\ FreshStart
    /\ LoaderIdle
    /\ TireIdle
    /\ WeatherIdle
    /\ NormIdle
    /\ CodecIdle
    /\ pit_data \in Frames
    /\ telemetry_data \in Frames
    /\ pit_df = PitFrame(pit_data)
    /\ join_step = 0

JoinNext ==
    \/ AddTelemetryTireFeatures
    \/ AddTelemetryFuelFeatures

JoinSpec == JoinInit /\ [][JoinNext]_vars

\* the rows of the enhanced pit DataFrame that carry the key k
RowsOf(k) == {r \in 1..Len(pit_df) : pit_df[r].key = k}

TireInit ==
    /\ storage = NoBucket
    /\ FreshStart
    /\ LoaderIdle
    /\ JoinIdle
    /\ WeatherIdle
    /\ NormIdle
    /\ CodecIdle
    /\ car_laps \in 0..MaxLaps
    /\ window_size = 0
    /\ stint_i = 0
    /\ stint = NoStint
    /\ analysis = "idle"

TireNext ==
    \/ ChooseWindow
    \/ SliceStints
    \/ CalculateStintFeatures
    \/ CalculateDegradationTargets

TireSpec == TireInit /\ [][TireNext]_vars

\* the field names of a feature vector computed on the normal path from
\* complete inputs
FeatureNames == _calculate_stint_features(TRUE, TRUE, TRUE, FALSE)

\* C18: dimensional consistency - every feature vector has the same set of
\* field names, on the normal path and on the fallback path, with or without
\* sector, telemetry and weather inputs.
C18_SameFieldNames ==
    stint.path # "none" => stint.features = FeatureNames

\* C19 (as stated): each of the four targets of an appended pair lies within
\* [0.001, 0.5].
C19_TargetsWithinHalf ==
    stint.appended =>
        \A v \in {stint.targets.s1, stint.targets.s2, stint.targets.s3, stint.targets.grip} :
            MinTarget <= v /\ v <= MaxSectorTarget

\* C19 (amended): the three sector targets lie within [0.001, 0.5] and
\* grip_loss_rate lies within [0.001, 1.0], defaults included.
C19_TargetsClamped ==
    stint.appended =>
        /\ \A v \in {stint.targets.s1, stint.targets.s2, stint.targets.s3} :
              MinTarget <= v /\ v <= MaxSectorTarget
        /\ MinTarget <= stint.targets.grip /\ stint.targets.grip <= MaxGripTarget

\* a pair was appended whose targets sit on both clamps of a sector and above
\* the sector clamp for the grip loss
C19_Witness ==
    /\ stint.appended
    /\ stint.targets.s1 = MinTarget
    /\ stint.targets.s2 = MaxSectorTarget
    /\ stint.targets.grip > MaxSectorTarget

C21_FeatureOnlyRecord ==
    [][ (analysis = "loop" /\ stint_i' = stint_i + 1) =>
          (stint'.start = stint_i /\ stint'.path # "none") ]_vars

\* ------------------------------------- the lap weather match on its own
\* _extract_weather_features goes through the laps of a car that has at least
\* MinCarLaps laps, with weather data that is not empty (line 137); the
\* timestamps are minutes
WeatherInit ==
    /\ storage = NoBucket
    /\ FreshStart
    /\ LoaderIdle
    /\ JoinIdle
    /\ TireIdle
    /\ NormIdle
    /\ CodecIdle
    /\ lap_timestamps \in UNION {[1..n -> {0, 10, 11, 30}] : n \in MinCarLaps..MaxCarLaps}
    /\ weather_timestamps \in (SUBSET {0, 10, 11, 30}) \ {{}}
    /\ lap_k = 0
    /\ weather_samples = <<>>

WeatherNext == ExtractLapWeather

WeatherSpec == WeatherInit /\ [][WeatherNext]_vars

\* C22: every lap the loop has gone through has its observation, also when
\* no weather sample lies within the tolerance of the lap.
C22_LapNeverDropped ==
    \A k \in 1..lap_k : k \in Range(weather_samples)

\* --------------------------------------------- the normalizer on its own
\* the column names are spelled as CSV headers are, the cells are those of an
\* object column read from a CSV
NormInit ==
    /\ storage = NoBucket
    /\ FreshStart
    /\ LoaderIdle
    /\ JoinIdle
    /\ TireIdle
    /\ WeatherIdle
    /\ CodecIdle
    /\ df_columns \in
          UNION {[1..n -> { <<"A">>, <<"a">>, <<" ", "A">>, <<"A", "_", "1">>,
                            <<"A", " ", "1">>, <<"B">> }] : n \in 1..MaxCols}
    /\ \E cell \in { Cell(FALSE, <<"b">>), Cell(FALSE, <<" ", "b">>),
                      Cell(FALSE, Markers.None), Cell(TRUE, <<>>) } :
          df_cell = [i \in 1..Len(df_columns) |-> cell]
    /\ passes = 0

NormNext == NormalizeDataframe

NormSpec == NormInit /\ [][NormNext]_vars

\* C30: after _normalize_dataframe the column names are pairwise distinct,
\* whatever the list of names it was given.
C30_ColumnsDistinct ==
    passes >= 1 => NoDuplicates(df_columns)

\* C23: _normalize_dataframe is idempotent: applied to its own result it
\* changes neither a column name nor a cell.
C23_Idempotent ==
    [][ (passes >= 1 /\ passes' = passes + 1) =>
          (df_columns' = df_columns /\ df_cell' = df_cell) ]_vars

\* ------------------------------------------- the time conversion on its own
\* the tokens are spelled with the characters of the time and gap columns, or
\* with letters
CodecInit ==
    /\ storage = NoBucket
    /\ FreshStart
    /\ LoaderIdle
    /\ JoinIdle
    /\ TireIdle
    /\ WeatherIdle
    /\ NormIdle
    /\ time_str \in
          UNION {[1..n -> {"1", "2", ":", "-", "+", " "}] : n \in 1..MaxTokenLen}
          \cup { Markers.NULL, Markers.NaN, Markers.nan, Markers.None, Markers.null,
                 <<"b">>, <<"1", ":", "b">>, <<"1", ":", "n", "a", "n">> }
    /\ seconds = Value("none", 0)

CodecNext == TimeToSeconds

CodecSpec == CodecInit /\ [][CodecNext]_vars

\* the positions of the colons of a token
Colons(s) == {i \in 1..Len(s) : s[i] = ":"}

\* a token no reading gives a number to: not blank, no sentinel, and, the
\* leading signs taken off, too many parts or a part that is no number
Unparsable(tok) ==
    LET s == strip(tok)
        t == lstrip(lstrip(s, {"+"}), {"-"})
    IN  /\ s # <<>>
        /\ upper(s) \notin Sentinels
        /\ float(s).kind = "err"
        /\ \/ Cardinality(Colons(t)) > 2
           \/ \E i \in 1..Len(split(t)) : float(split(t)[i]).kind = "err"

\* C24: time_to_seconds gives a value for every token and never raises; a
\* blank or sentinel token and a token it cannot parse give 0.0, MM:SS gives
\* 60*MM+SS, HH:MM:SS gives 3600*HH+60*MM+SS, a plain number gives itself.
C24_TotalAndDegrades ==
    seconds # Value("none", 0) =>
      LET s == strip(time_str) IN
      /\ seconds.kind \in {"num", "nan"}
      /\ (s = <<>> \/ s \in {<<"-">>, Markers.NULL, Markers.NaN}) => seconds = Value("num", 0)
      /\ Unparsable(time_str) => seconds = Value("num", 0)
      /\ IsDigits(s) => seconds = Value("num", DigitsValue(s))
      /\ \A i \in Colons(s) :
            LET mm == SubSeq(s, 1, i - 1)
                ss == SubSeq(s, i + 1, Len(s))
            IN  IsDigits(mm) /\ IsDigits(ss) =>
                  seconds = Value("num", 60 * DigitsValue(mm) + DigitsValue(ss))
      /\ \A i, j \in Colons(s) :
            LET hh == SubSeq(s, 1, i - 1)
                mm == SubSeq(s, i + 1, j - 1)
                ss == SubSeq(s, j + 1, Len(s))
            IN  i < j /\ IsDigits(hh) /\ IsDigits(mm) /\ IsDigits(ss) =>
                  seconds = Value("num", 3600 * DigitsValue(hh) + 60 * DigitsValue(mm)
                                + DigitsValue(ss))

\* a three-part token has been converted
C24_Witness ==
    time_str = <<"1", ":", "2", ":", "1">> /\ seconds = Value("num", 3721)

\* ------------------------------------------------ completion of the pipeline
\* the completed flag of the persisted checkpoint
PersistedCompleted == Get(training_state, "completed", FALSE)

\* C25: whenever completed = true is persisted, the Trainers have been
\* invoked, in this run or an earlier one, on aggregates that contained every
\* track of the persisted processed_tracks.
C25_CompletedMeansTrained ==
    PersistedCompleted => Range(PersistedProcessed) \subseteq trainedOn

\* C26: whenever a run persists completed = true, every track that
\* list_available_tracks returned in that run is in the persisted
\* processed_tracks.
C26_CompletedCoversAvailable ==
    [][ (PersistedCompleted' /\ training_state' # training_state) =>
          Range(available_tracks) \subseteq Range(PersistedProcessed') ]_vars

\* C27: train_all_models returns normally from every checkpoint an earlier
\* run persisted: no run ends by raising to its caller.
C27_ReturnsNormally ==
    pc # "raised"

\* C28: in a run that reaches the training phase the aggregate has an
\* artifact for every track of processed_tracks, and the persisted
\* processed_data_keys are the persisted processed_tracks, as a set.
C28_AggregateCoversProcessed ==
    /\ (pc = "train" /\ Keys(all_processed_data) # {}) =>
          Range(processed_tracks) \subseteq Keys(all_processed_data)
    /\ Get(training_state, "processed_data_keys", {}) = Range(PersistedProcessed)

====
